---- MODULE Spec2Model ----
(***************************************************************************)
(* A model of xyflow-anywidget: the key-name codec and the Node / Edge /   *)
(* Props descriptors of data_types.py, and the XYFlowWidget of widget.py   *)
(* with its update_node / update_edge operations.                          *)
(*                                                                         *)
(* Python objects that can be aliased (the dicts held in the node and edge *)
(* lists, and the lists themselves) live in a store of two heaps, so that  *)
(* "rebuilt, not mutated in place" is a statement the model can refute.    *)
(* Nested values are kept by value inside their dict.                      *)
(***************************************************************************)
EXTENDS Integers, Sequences, FiniteSets, TLC

----------------------------------------------------------------------------
(* Characters: str.isupper, str.upper and str.lower on one ASCII character *)

LowerLetters == "abcdefghijklmnopqrstuvwxyz"
UpperLetters == "ABCDEFGHIJKLMNOPQRSTUVWXYZ"

CharAt(s, i) == SubSeq(s, i, i)

LowerSet == {CharAt(LowerLetters, i) : i \in 1..Len(LowerLetters)}
UpperSet == {CharAt(UpperLetters, i) : i \in 1..Len(UpperLetters)}

(* the letter tables, lower to upper and back *)
UpperOf ==
    [c \in LowerSet |->
        CharAt(UpperLetters, CHOOSE i \in 1..Len(LowerLetters) : CharAt(LowerLetters, i) = c)]
LowerOf ==
    [c \in UpperSet |->
        CharAt(LowerLetters, CHOOSE i \in 1..Len(UpperLetters) : CharAt(UpperLetters, i) = c)]

IsUpper(c) == c \in UpperSet

Upper(c) == IF c \in LowerSet THEN UpperOf[c] ELSE c

Lower(c) == IF c \in UpperSet THEN LowerOf[c] ELSE c

----------------------------------------------------------------------------
(* The key-name codec (data_types.py).  Each loop is the for-loop of the   *)
(* source, carrying the list `new` (joined at the end) and, for the first, *)
(* the flag `capitalize`.                                                  *)

(* Variants of the two loops, each with one slip *)

(* the flag is never cleared, so a whole word is uppercased *)
RECURSIVE SnakeLoopNeverClearing(_, _, _, _)
SnakeLoopNeverClearing(name, i, new, capitalize) ==
    IF i > Len(name) THEN new
    ELSE LET c == CharAt(name, i) IN
         IF i = 1 THEN SnakeLoopNeverClearing(name, i + 1, new \o c, capitalize)
         ELSE IF c = "_" THEN SnakeLoopNeverClearing(name, i + 1, new, TRUE)
         ELSE SnakeLoopNeverClearing(name, i + 1,
                        new \o (IF capitalize THEN Upper(c) ELSE c), capitalize)

(* the first character is treated like the others *)
RECURSIVE SnakeLoopFirstToo(_, _, _, _)
SnakeLoopFirstToo(name, i, new, capitalize) ==
    IF i > Len(name) THEN new
    ELSE LET c == CharAt(name, i) IN
         IF c = "_" THEN SnakeLoopFirstToo(name, i + 1, new, TRUE)
         ELSE SnakeLoopFirstToo(name, i + 1,
                        new \o (IF capitalize THEN Upper(c) ELSE c), FALSE)

(* a run of capitals is taken as one word *)
RECURSIVE CamelLoopAcronyms(_, _, _)
CamelLoopAcronyms(name, i, new) ==
    IF i > Len(name) THEN new
    ELSE LET c == CharAt(name, i) IN
         IF i = 1 THEN CamelLoopAcronyms(name, i + 1, new \o c)
         ELSE IF IsUpper(c) /\ ~IsUpper(CharAt(name, i - 1))
              THEN CamelLoopAcronyms(name, i + 1, (new \o "_") \o Lower(c))
         ELSE CamelLoopAcronyms(name, i + 1, new \o Lower(c))

(* the first character is treated like the others *)
RECURSIVE CamelLoopFirstToo(_, _, _)
CamelLoopFirstToo(name, i, new) ==
    IF i > Len(name) THEN new
    ELSE LET c == CharAt(name, i) IN
         IF IsUpper(c) THEN CamelLoopFirstToo(name, i + 1, (new \o "_") \o Lower(c))
         ELSE CamelLoopFirstToo(name, i + 1, new \o c)

RECURSIVE SnakeLoop(_, _, _, _)
SnakeLoop(name, i, new, capitalize) ==
    IF i > Len(name) THEN new
    ELSE LET c == CharAt(name, i) IN
         IF i = 1 THEN SnakeLoop(name, i + 1, new \o c, capitalize)
         ELSE IF c = "_" THEN SnakeLoop(name, i + 1, new, TRUE)
         ELSE SnakeLoop(name, i + 1,
                        new \o (IF capitalize THEN Upper(c) ELSE c), FALSE)

_snake_case_to_camel_case(name) == SnakeLoop(name, 1, "", FALSE)

RECURSIVE CamelLoop(_, _, _)
CamelLoop(name, i, new) ==
    IF i > Len(name) THEN new
    ELSE LET c == CharAt(name, i) IN
         IF i = 1 THEN CamelLoop(name, i + 1, new \o c)
         ELSE IF IsUpper(c) THEN CamelLoop(name, i + 1, (new \o "_") \o Lower(c))
         ELSE CamelLoop(name, i + 1, new \o c)

_camel_case_to_snake_case(name) == CamelLoop(name, 1, "")

----------------------------------------------------------------------------
(* Python values.  A value is a pair <<tag, payload>>; a mapping (a dict's *)
(* contents) is a function from key strings to values.                     *)

VNone == <<"none", "">>
VStr(s) == <<"str", s>>
VBool(b) == <<"bool", b>>
VNum(n) == <<"num", n>>
VTuple(t) == <<"tuple", t>>
VList(l) == <<"list", l>>
VDict(m) == <<"dict", m>>
VObj(cls, fields) == <<cls, fields>>

Tag(v) == v[1]
Payload(v) == v[2]

EmptyMap == [k \in {} |-> VNone]

(* Mutation of Merge: the operands swapped, so the keys of a win *)
MergeSwapped(a, b) ==
    [k \in (DOMAIN a) \cup (DOMAIN b) |-> IF k \in DOMAIN a THEN a[k] ELSE b[k]]

(* the dict display merging a then b, and a.update(b): the keys of b win, whole value by whole value *)
Merge(a, b) ==
    [k \in (DOMAIN a) \cup (DOMAIN b) |-> IF k \in DOMAIN b THEN b[k] ELSE a[k]]

(* bool(v) of a dict, as in `if self.extra:` and `update or None` *)
Truthy(m) == DOMAIN m # {}

Range(s) == {s[i] : i \in DOMAIN s}

----------------------------------------------------------------------------
(* The descriptors (data_types.py): the declared fields, in order.         *)

XYHandleFields ==
    << "id", "position", "type", "style", "is_connectable" >>

NodeFields ==
    << "id", "position", "data", "type", "source_position",
       "target_position", "hidden", "selected", "dragging", "draggable",
       "selectable", "connectable", "deletable", "drag_handle", "width",
       "height", "initial_width", "initial_height", "parent_id", "z_index",
       "extent", "expand_parent", "origin", "handles", "aria_label",
       "aria_role_description", "measured", "extra" >>

EdgeFields ==
    << "id", "source", "target", "type", "data", "animated", "hidden",
       "selected", "deletable", "selectable", "focusable", "z_index",
       "label", "label_style", "label_show_bg", "label_bg_style",
       "label_bg_padding", "label_bg_border_radius", "style", "class_name",
       "marker_start", "marker_end", "path_options", "interaction_width",
       "source_handle_id", "target_handle_id", "reconnectable",
       "aria_label", "aria_role", "extra" >>

PropsFields ==
    << "fit_view", "fit_view_options", "node_origin", "node_extent",
       "translate_extent", "default_viewport", "viewport", "min_zoom",
       "max_zoom", "zoom_on_scroll", "zoom_on_pinch",
       "zoom_on_double_click", "pan_on_scroll", "pan_on_scroll_speed",
       "pan_on_scroll_mode", "pan_on_drag", "prevent_scrolling",
       "zoom_activation_key_code", "pan_activation_key_code",
       "snap_to_grid", "snap_grid", "elements_selectable",
       "nodes_draggable", "nodes_connectable", "nodes_focusable",
       "edges_focusable", "edges_reconnectable", "select_nodes_on_drag",
       "selection_on_drag", "selection_mode", "selection_key_code",
       "multi_selection_key_code", "connect_on_click",
       "default_edge_options", "connection_line_type",
       "connection_line_style", "connection_mode", "connection_radius",
       "node_drag_threshold", "default_marker_color", "color_mode",
       "only_render_visible_elements", "elevate_nodes_on_select",
       "elevate_edges_on_select", "style", "class_name", "delete_key_code",
       "auto_pan_on_connect", "auto_pan_on_node_drag", "auto_pan_speed",
       "disable_keyboard_a11y", "id", "no_drag_class_name",
       "no_wheel_class_name", "no_pan_class_name", "pane_click_distance",
       "node_click_distance", "reconnect_radius", "debug", "pro_options",
       "attribution_position", "extra_props" >>

ClassFields(cls) ==
    CASE cls = "XYHandle" -> XYHandleFields
      [] cls = "Node" -> NodeFields
      [] cls = "Edge" -> EdgeFields
      [] cls = "Props" -> PropsFields

(* fields declared without a default: the constructor requires them *)
ClassRequired(cls) ==
    CASE cls = "Node" -> {"id", "position"}
      [] cls = "Edge" -> {"id", "source", "target"}
      [] OTHER -> {}

(* the declared default of a field: field(default_factory=dict) or None *)
ClassDefault(cls, f) ==
    IF \/ cls = "Node" /\ f \in {"data", "extra"}
       \/ cls = "Edge" /\ f \in {"data", "extra"}
    THEN VDict(EmptyMap)
    ELSE VNone

(* a dataclass constructor called with keywords: TypeError on an undeclared keyword or a   *)
(* missing required field, else the instance                               *)
InitOk(cls, kwargs) ==
    /\ DOMAIN kwargs \subseteq Range(ClassFields(cls))
    /\ ClassRequired(cls) \subseteq DOMAIN kwargs

New(cls, kwargs) ==
    VObj(cls, [f \in Range(ClassFields(cls)) |->
                 IF f \in DOMAIN kwargs THEN kwargs[f] ELSE ClassDefault(cls, f)])

(* bool(v) *)
PyBool(v) ==
    CASE Tag(v) = "none" -> FALSE
      [] Tag(v) = "bool" -> Payload(v)
      [] Tag(v) = "num" -> Payload(v) # 0
      [] Tag(v) = "str" -> Payload(v) # ""
      [] Tag(v) \in {"dict", "tuple", "list"} -> DOMAIN Payload(v) # {}
      [] OTHER -> TRUE

(* dataclasses.asdict on a value: dataclass instances become dicts of     *)
(* their fields (names unchanged, None kept), containers are copied       *)
RECURSIVE asdict(_)
asdict(v) ==
    CASE Tag(v) \in {"XYHandle", "Node", "Edge", "Props"} ->
            VDict([f \in DOMAIN Payload(v) |-> asdict(Payload(v)[f])])
      [] Tag(v) \in {"dict", "tuple", "list"} ->
            <<Tag(v), [k \in DOMAIN Payload(v) |-> asdict(Payload(v)[k])]>>
      [] OTHER -> v

(* the mapping a sequence of writes dct[names[i]] = values[i] leaves: of  *)
(* the writes to one key the last decides                                 *)
LastWrite(names, values) ==
    [k \in Range(names) |->
        values[CHOOSE i \in DOMAIN names :
                  names[i] = k /\ \A j \in DOMAIN names : names[j] = k => j <= i]]

(* Variant of _dataclass_to_dict: a field is written when its value is   *)
(* truthy, so 0, False and empty containers are dropped with None         *)
DataclassToDictDroppingFalsy(obj, exclude) ==
    LET fields == ClassFields(Tag(obj))
        temp_obj_dict == Payload(asdict(obj))
        written == SelectSeq(fields,
                       LAMBDA python_name :
                           python_name \notin exclude /\ PyBool(temp_obj_dict[python_name]))
    IN  LastWrite([i \in DOMAIN written |-> _snake_case_to_camel_case(written[i])],
                  [i \in DOMAIN written |-> temp_obj_dict[written[i]]])

(* _dataclass_to_dict: the fields in declaration order; each field that   *)
(* is not excluded and not None writes dct[react_name] = value            *)
_dataclass_to_dict(obj, exclude) ==
    LET fields == ClassFields(Tag(obj))
        temp_obj_dict == Payload(asdict(obj))
        written == SelectSeq(fields,
                       LAMBDA python_name :
                           python_name \notin exclude /\ temp_obj_dict[python_name] # VNone)
    IN  LastWrite([i \in DOMAIN written |-> _snake_case_to_camel_case(written[i])],
                  [i \in DOMAIN written |-> temp_obj_dict[written[i]]])

(* Variant of Node.to_dict: the position is written as it was given *)
NodeToDictRawPosition(self) ==
    LET f == Payload(self)
        node_dict == _dataclass_to_dict(self, {"extra", "handles"})
        with_handles ==
            IF f.handles # VNone
            THEN Merge(node_dict,
                       "handles" :>
                          VList([i \in DOMAIN Payload(f.handles) |->
                                    asdict(Payload(f.handles)[i])]))
            ELSE node_dict
    IN  IF PyBool(f.extra) THEN Merge(with_handles, Payload(f.extra))
        ELSE with_handles

Node_to_dict(self) ==
    LET f == Payload(self)
        node_dict == _dataclass_to_dict(self, {"extra", "position", "handles"})
        with_position ==
            Merge(node_dict,
                  "position" :>
                     (IF Tag(f.position) = "tuple"
                      THEN VDict([x |-> Payload(f.position)[1],
                                  y |-> Payload(f.position)[2]])
                      ELSE f.position))
        with_handles ==
            IF f.handles # VNone
            THEN Merge(with_position,
                       "handles" :>
                          VList([i \in DOMAIN Payload(f.handles) |->
                                    asdict(Payload(f.handles)[i])]))
            ELSE with_position
    IN  IF PyBool(f.extra) THEN Merge(with_handles, Payload(f.extra))
        ELSE with_handles

(* Variant of Edge.to_dict: data is written like any other field *)
EdgeToDictAlwaysData(self) ==
    LET f == Payload(self)
        edge == _dataclass_to_dict(self, {"extra"})
    IN  IF PyBool(f.extra) THEN Merge(edge, Payload(f.extra)) ELSE edge

Edge_to_dict(self) ==
    LET f == Payload(self)
        edge == _dataclass_to_dict(self, {"extra", "data"})
        with_data == IF PyBool(f.data) THEN Merge(edge, "data" :> f.data) ELSE edge
    IN  IF PyBool(f.extra) THEN Merge(with_data, Payload(f.extra)) ELSE with_data

(* Variant of Props.to_dict: the declared fields are written over the bag *)
PropsToDictBagFirst(self) ==
    LET f == Payload(self)
        props == _dataclass_to_dict(self, {"extra_props"})
    IN  IF PyBool(f.extra_props) THEN Merge(Payload(f.extra_props), props)
        ELSE props

Props_to_dict(self) ==
    LET f == Payload(self)
        props == _dataclass_to_dict(self, {"extra_props"})
    IN  IF PyBool(f.extra_props) THEN Merge(props, Payload(f.extra_props))
        ELSE props

(* the keyword arguments built by from_dict: every key through the        *)
(* inverse codec.  Two keys with one translation collide; the dict        *)
(* comprehension keeps one of them.                                       *)
FromDictKwargs(dct) ==
    [f \in {_camel_case_to_snake_case(k) : k \in DOMAIN dct} |->
        dct[CHOOSE k \in DOMAIN dct : _camel_case_to_snake_case(k) = f]]

(* Variant of from_dict: keywords that name no field are let through *)
FromDictLenient(cls, dct) == ClassRequired(cls) \subseteq DOMAIN FromDictKwargs(dct)

(* Node.from_dict / Edge.from_dict / Props.from_dict: raises or returns   *)
FromDictOk(cls, dct) == InitOk(cls, FromDictKwargs(dct))
from_dict(cls, dct) == New(cls, FromDictKwargs(dct))

----------------------------------------------------------------------------
(* The object store.  lists[a] is the content of the list object a (the    *)
(* addresses of its element dicts), heap[d] the mapping held by the dict   *)
(* object d.  Allocation appends; an object, once allocated, keeps its     *)
(* address.                                                                *)

VRef(a) == <<"ref", a>>

AllocDict(st, m) == [st EXCEPT !.heap = Append(@, m)]
AllocList(st, l) == [st EXCEPT !.lists = Append(@, l)]
LastDict(st) == Len(st.heap)
LastList(st) == Len(st.lists)

(* lst.append(d) on the list object lst *)
ListAppend(st, lst, d) == [st EXCEPT !.lists[lst] = Append(@, d)]

(* the mappings a list shows, in order: what `widget.nodes` compares as *)
Contents(st, lst) == [i \in DOMAIN st.lists[lst] |-> st.heap[st.lists[lst][i]]]

(* widget.py, module level: the demo nodes and edges, and the shallow     *)
(* copies `_default_nodes.copy()` made in the class body, which share the *)
(* element dicts                                                          *)
DefaultNode1 ==
    [id |-> VStr("1"), position |-> VDict([x |-> VNum(0), y |-> VNum(0)]),
     data |-> VDict([label |-> VStr("1")])]
DefaultNode2 ==
    [id |-> VStr("2"), position |-> VDict([x |-> VNum(0), y |-> VNum(100)]),
     data |-> VDict([label |-> VStr("2")])]
DefaultEdge1 ==
    [id |-> VStr("e1-2"), source |-> VStr("1"), target |-> VStr("2")]

_default_nodes == 1
_default_edges == 2
NodesTraitDefault == 3
EdgesTraitDefault == 4

ModuleStore ==
    [heap |-> << DefaultNode1, DefaultNode2, DefaultEdge1 >>,
     lists |-> << <<1, 2>>, <<3>>, <<1, 2>>, <<3>> >>]

----------------------------------------------------------------------------
(* _update_index (widget.py): builds the list `new` element by element.   *)
(* value is None or a reference to a dict, update is None or a dict.      *)

(* Mutations of the loop of _update_index, by mode:                       *)
(*   "merge_replacement"  the replacement is merged into the old element  *)
(*   "off_by_one"         the index is compared one-based                 *)
(*   "wrap_negative"      a negative index counts from the end            *)
(*   "update_in_place"    the old element is updated in place             *)
(*   "update_alone"       the update takes the place of the old element   *)
RECURSIVE MutatedLoop(_, _, _, _, _, _, _, _)
MutatedLoop(mode, st, new, lst, i, index, value, update) ==
    IF i >= Len(st.lists[lst]) THEN st
    ELSE LET v == st.lists[lst][i + 1]
             here == CASE mode = "off_by_one" -> i + 1 = index
                       [] mode = "wrap_negative" ->
                             i = (IF index < 0 THEN index + Len(st.lists[lst]) ELSE index)
                       [] OTHER -> i = index
             next == IF ~here THEN ListAppend(st, new, v)
                     ELSE IF value # VNone
                     THEN IF mode = "merge_replacement"
                          THEN LET m == AllocDict(st, Merge(st.heap[v], st.heap[Payload(value)]))
                               IN  ListAppend(m, new, LastDict(m))
                          ELSE ListAppend(st, new, Payload(value))
                     ELSE IF PyBool(update) /\ mode = "update_alone"
                     THEN LET m == AllocDict(st, Payload(update))
                          IN  ListAppend(m, new, LastDict(m))
                     ELSE IF PyBool(update)
                     THEN IF mode = "update_in_place"
                          THEN ListAppend([st EXCEPT !.heap[v] = Merge(@, Payload(update))],
                                          new, v)
                          ELSE LET m == AllocDict(st, Merge(st.heap[v], Payload(update)))
                               IN  ListAppend(m, new, LastDict(m))
                     ELSE ListAppend(st, new, v)
         IN  MutatedLoop(mode, next, new, lst, i + 1, index, value, update)

LoopMergingReplacement(st, new, lst, i, index, value, update) ==
    MutatedLoop("merge_replacement", st, new, lst, i, index, value, update)
LoopOffByOne(st, new, lst, i, index, value, update) ==
    MutatedLoop("off_by_one", st, new, lst, i, index, value, update)
LoopWrappingNegative(st, new, lst, i, index, value, update) ==
    MutatedLoop("wrap_negative", st, new, lst, i, index, value, update)
LoopUpdatingInPlace(st, new, lst, i, index, value, update) ==
    MutatedLoop("update_in_place", st, new, lst, i, index, value, update)

LoopUpdateAlone(st, new, lst, i, index, value, update) ==
    MutatedLoop("update_alone", st, new, lst, i, index, value, update)

(* A variant that, given a replacement for the index one past the end,    *)
(* appends it to the list.                                                *)
LoopAppendingPastEnd(st, new, lst, i, index, value, update) ==
    LET s == MutatedLoop("exact", st, new, lst, i, index, value, update)
    IN  IF i = 0 /\ index = Len(st.lists[lst]) /\ value # VNone
        THEN ListAppend(s, new, Payload(value))
        ELSE s

RECURSIVE UpdateIndexLoop(_, _, _, _, _, _, _)
UpdateIndexLoop(st, new, lst, i, index, value, update) ==
    IF i >= Len(st.lists[lst]) THEN st
    ELSE LET v == st.lists[lst][i + 1] IN
         IF i # index
         THEN UpdateIndexLoop(ListAppend(st, new, v), new, lst, i + 1,
                              index, value, update)
         ELSE IF value # VNone
         THEN UpdateIndexLoop(ListAppend(st, new, Payload(value)), new, lst,
                              i + 1, index, value, update)
         ELSE IF PyBool(update)
         THEN LET merged == AllocDict(st, Merge(st.heap[v], Payload(update)))
              IN  UpdateIndexLoop(ListAppend(merged, new, LastDict(merged)),
                                  new, lst, i + 1, index, value, update)
         ELSE UpdateIndexLoop(ListAppend(st, new, v), new, lst, i + 1,
                              index, value, update)

(* Mutation of _update_index: the element is assigned into the given     *)
(* list, which is returned                                                *)
UpdateIndexInPlace(st, lst, index, value, update) ==
    IF index < 0 \/ index >= Len(st.lists[lst]) THEN [st |-> st, ret |-> lst]
    ELSE IF value # VNone
    THEN [st |-> [st EXCEPT !.lists[lst][index + 1] = Payload(value)], ret |-> lst]
    ELSE IF PyBool(update)
    THEN LET m == AllocDict(st, Merge(st.heap[st.lists[lst][index + 1]], Payload(update)))
         IN  [st |-> [m EXCEPT !.lists[lst][index + 1] = LastDict(m)], ret |-> lst]
    ELSE [st |-> st, ret |-> lst]

_update_index(st, lst, index, value, update) ==
    LET fresh == AllocList(st, <<>>)
        new == LastList(fresh)
    IN  [st |-> UpdateIndexLoop(fresh, new, lst, 0, index, value, update),
         ret |-> new]

(* update_edge / update_node (widget.py).  self is the widget record, edge *)
(* (node) is None, a descriptor or the caller's dict, update the keyword   *)
(* arguments.  The result names the exception raised ("" for none), the    *)
(* store and the widget afterwards.  A descriptor is serialized into a new *)
(* dict; the caller's dict is validated by from_dict and then used itself. *)
(* The trait assignment makes the widget hold the list that _update_index  *)
(* returned.                                                               *)
update_edge(st, self, index, edge, update) ==
    IF edge # VNone /\ Truthy(update)
    THEN [raised |-> "ValueError", st |-> st, self |-> self]
    ELSE IF edge = VNone /\ ~Truthy(update)
    THEN [raised |-> "ValueError", st |-> st, self |-> self]
    ELSE IF edge # VNone /\ Tag(edge) = "dict" /\ ~FromDictOk("Edge", Payload(edge))
    THEN [raised |-> "TypeError", st |-> st, self |-> self]
    ELSE LET held == IF edge = VNone THEN st
                     ELSE IF Tag(edge) = "Edge" THEN AllocDict(st, Edge_to_dict(edge))
                     ELSE AllocDict(st, Payload(edge))
             value == IF edge = VNone THEN VNone ELSE VRef(LastDict(held))
             r == _update_index(held, self.edges, index, value,
                                IF Truthy(update) THEN VDict(update) ELSE VNone)
         IN  [raised |-> "", st |-> r.st, self |-> [self EXCEPT !.edges = r.ret]]

(* Mutations of update_node: a check or the validation left out *)
UpdateNodeVariant(checkNeither, validate, st, self, index, node, update) ==
    IF node # VNone /\ Truthy(update)
    THEN [raised |-> "ValueError", st |-> st, self |-> self]
    ELSE IF checkNeither /\ node = VNone /\ ~Truthy(update)
    THEN [raised |-> "ValueError", st |-> st, self |-> self]
    ELSE IF validate /\ node # VNone /\ Tag(node) = "dict"
               /\ ~FromDictOk("Node", Payload(node))
    THEN [raised |-> "TypeError", st |-> st, self |-> self]
    ELSE LET held == IF node = VNone THEN st
                     ELSE IF Tag(node) = "Node" THEN AllocDict(st, Node_to_dict(node))
                     ELSE AllocDict(st, Payload(node))
             value == IF node = VNone THEN VNone ELSE VRef(LastDict(held))
             r == _update_index(held, self.nodes, index, value,
                                IF Truthy(update) THEN VDict(update) ELSE VNone)
         IN  [raised |-> "", st |-> r.st, self |-> [self EXCEPT !.nodes = r.ret]]

UpdateNodeNeitherAllowed(st, self, index, node, update) ==
    UpdateNodeVariant(FALSE, TRUE, st, self, index, node, update)
UpdateNodeUnvalidated(st, self, index, node, update) ==
    UpdateNodeVariant(TRUE, FALSE, st, self, index, node, update)

update_node(st, self, index, node, update) ==
    IF node # VNone /\ Truthy(update)
    THEN [raised |-> "ValueError", st |-> st, self |-> self]
    ELSE IF node = VNone /\ ~Truthy(update)
    THEN [raised |-> "ValueError", st |-> st, self |-> self]
    ELSE IF node # VNone /\ Tag(node) = "dict" /\ ~FromDictOk("Node", Payload(node))
    THEN [raised |-> "TypeError", st |-> st, self |-> self]
    ELSE LET held == IF node = VNone THEN st
                     ELSE IF Tag(node) = "Node" THEN AllocDict(st, Node_to_dict(node))
                     ELSE AllocDict(st, Payload(node))
             value == IF node = VNone THEN VNone ELSE VRef(LastDict(held))
             r == _update_index(held, self.nodes, index, value,
                                IF Truthy(update) THEN VDict(update) ELSE VNone)
         IN  [raised |-> "", st |-> r.st, self |-> [self EXCEPT !.nodes = r.ret]]

----------------------------------------------------------------------------
(* Construction (widget.py).  The traits of a widget: nodes and edges     *)
(* refer to list objects, the dict traits are kept by value.              *)

Widget(nodes, edges, props) ==
    [nodes |-> nodes, edges |-> edges, props |-> props,
     height |-> VNone, width |-> VNone,
     last_clicked_node |-> EmptyMap, last_hovered_node |-> EmptyMap,
     last_clicked_edge |-> EmptyMap, last_hovered_edge |-> EmptyMap]

(* XYFlowWidget(): each instance gets its own list built from the trait's *)
(* default value; the demo dicts themselves are shared                    *)
XYFlowWidget(st) ==
    LET s1 == AllocList(st, st.lists[NodesTraitDefault])
        s2 == AllocList(s1, s1.lists[EdgesTraitDefault])
    IN  [st |-> s2, self |-> Widget(LastList(s1), LastList(s2), EmptyMap)]

to_dict(obj) ==
    CASE Tag(obj) = "Node" -> Node_to_dict(obj)
      [] Tag(obj) = "Edge" -> Edge_to_dict(obj)
      [] Tag(obj) = "Props" -> Props_to_dict(obj)

(* [x.to_dict() for x in items], appended to the list object new *)
RECURSIVE ToDictLoop(_, _, _, _)
ToDictLoop(st, new, items, i) ==
    IF i > Len(items) THEN st
    ELSE LET s1 == AllocDict(st, to_dict(items[i]))
         IN  ToDictLoop(ListAppend(s1, new, LastDict(s1)), new, items, i + 1)

(* XYFlowWidget.from_data: nodes, edges are None or a list of descriptors, *)
(* props is None or a Props                                                *)
from_data(st, nodes, edges, props) ==
    LET s1 == AllocList(st, <<>>)
        _nodes == LastList(s1)
        s2 == IF nodes = VNone THEN s1 ELSE ToDictLoop(s1, _nodes, Payload(nodes), 1)
        s3 == AllocList(s2, <<>>)
        _edges == LastList(s3)
        s4 == IF edges = VNone THEN s3 ELSE ToDictLoop(s3, _edges, Payload(edges), 1)
        _props == IF props = VNone THEN EmptyMap ELSE Props_to_dict(props)
    IN  [st |-> s4, self |-> Widget(_nodes, _edges, _props)]

----------------------------------------------------------------------------
(* The state: the store, the widgets constructed so far, the last         *)
(* operation with its arguments and outcome, and the store and widgets as *)
(* they were before it.                                                   *)

VARIABLES store, widgets, call, pre, nops

vars == <<store, widgets, call, pre, nops>>

(* Bound: the number of operations in a run *)
MaxOps == 3

(* The arguments the operations are tried with *)
NodeA ==
    New("Node", [id |-> VStr("new"),
                 position |-> VTuple(<<VNum(50), VNum(75)>>),
                 data |-> VDict([label |-> VStr("New Node")])])
NodeB ==
    New("Node", [id |-> VStr("b"),
                 position |-> VDict([x |-> VNum(30), y |-> VNum(40)]),
                 selected |-> VBool(TRUE), z_index |-> VNum(2)])
EdgeA ==
    New("Edge", [id |-> VStr("new_edge"), source |-> VStr("1"),
                 target |-> VStr("2"), animated |-> VBool(TRUE),
                 label |-> VStr("New Edge")])
PropsA == New("Props", [fit_view |-> VBool(TRUE), min_zoom |-> VNum(1)])

(* the docstring's mapping: id and position only *)
NodeDictPlain ==
    [id |-> VStr("1"), position |-> VDict([x |-> VNum(100), y |-> VNum(100)])]
NodeDictNoPosition == [id |-> VStr("x"), data |-> VDict(EmptyMap)]
NodeDictUnknownKey ==
    [id |-> VStr("x"), position |-> VDict([x |-> VNum(0), y |-> VNum(0)]),
     fooBar |-> VNum(1)]
EdgeDictPlain == [id |-> VStr("e1"), source |-> VStr("a"), target |-> VStr("b")]
EdgeDictNoTarget == [id |-> VStr("e1"), source |-> VStr("a")]
EdgeDictUnknownKey ==
    [id |-> VStr("e1"), source |-> VStr("a"), target |-> VStr("b"),
     fooBar |-> VNum(1)]

NodeUpdate1 == [selected |-> VBool(TRUE)]
NodeUpdate2 == [selected |-> VBool(FALSE), data |-> VDict([value |-> VNum(42)])]
EdgeUpdate1 == [animated |-> VBool(TRUE)]
EdgeUpdate2 == [animated |-> VBool(FALSE), style |-> VDict([stroke |-> VStr("red")])]

(* <<node, update>>: neither, an update alone, a replacement alone, both *)
NodeArgs ==
    { <<VNone, EmptyMap>>, <<VNone, NodeUpdate1>>, <<VNone, NodeUpdate2>>,
      <<NodeA, EmptyMap>>, <<VDict(Node_to_dict(NodeA)), EmptyMap>>,
      <<VDict(NodeDictPlain), EmptyMap>>, <<VDict(NodeDictNoPosition), EmptyMap>>,
      <<VDict(NodeDictUnknownKey), EmptyMap>>, <<NodeA, NodeUpdate1>> }
EdgeArgs ==
    { <<VNone, EmptyMap>>, <<VNone, EdgeUpdate1>>, <<VNone, EdgeUpdate2>>,
      <<EdgeA, EmptyMap>>, <<VDict(Edge_to_dict(EdgeA)), EmptyMap>>,
      <<VDict(EdgeDictPlain), EmptyMap>>, <<VDict(EdgeDictNoTarget), EmptyMap>>,
      <<VDict(EdgeDictUnknownKey), EmptyMap>>, <<EdgeA, EdgeUpdate1>> }

(* <<nodes, edges, props>> given to from_data *)
FromDataArgs ==
    { <<VNone, VNone, VNone>>,
      <<VList(<<NodeA, NodeB>>), VList(<<EdgeA>>), PropsA>> }

(* the indexes tried on a list: a negative one, every valid one, one past *)
(* the end                                                                *)
Indexes(lst) == -1 .. Len(store.lists[lst])

NoCall == [op |-> "", w |-> 0, index |-> 0, arg |-> VNone, update |-> EmptyMap,
           raised |-> ""]

Init ==
    /\ store = ModuleStore
    /\ widgets = <<>>
    /\ call = NoCall
    /\ pre = [store |-> ModuleStore, widgets |-> <<>>]
    /\ nops = 0

Step(op, w, index, arg, update, raised) ==
    /\ nops < MaxOps
    /\ nops' = nops + 1
    /\ pre' = [store |-> store, widgets |-> widgets]
    /\ call' = [op |-> op, w |-> w, index |-> index, arg |-> arg,
                update |-> update, raised |-> raised]

Construct ==
    LET r == XYFlowWidget(store) IN
    /\ Step("XYFlowWidget", Len(widgets) + 1, 0, VNone, EmptyMap, "")
    /\ store' = r.st
    /\ widgets' = Append(widgets, r.self)

FromData ==
    \E a \in FromDataArgs :
        LET r == from_data(store, a[1], a[2], a[3]) IN
        /\ Step("from_data", Len(widgets) + 1, 0, VTuple(a), EmptyMap, "")
        /\ store' = r.st
        /\ widgets' = Append(widgets, r.self)

UpdateNode ==
    \E w \in DOMAIN widgets : \E index \in Indexes(widgets[w].nodes) :
    \E a \in NodeArgs :
        LET r == update_node(store, widgets[w], index, a[1], a[2]) IN
        /\ Step("update_node", w, index, a[1], a[2], r.raised)
        /\ store' = r.st
        /\ widgets' = [widgets EXCEPT ![w] = r.self]

UpdateEdge ==
    \E w \in DOMAIN widgets : \E index \in Indexes(widgets[w].edges) :
    \E a \in EdgeArgs :
        LET r == update_edge(store, widgets[w], index, a[1], a[2]) IN
        /\ Step("update_edge", w, index, a[1], a[2], r.raised)
        /\ store' = r.st
        /\ widgets' = [widgets EXCEPT ![w] = r.self]

(* The front end writes the element clicked or hovered into a last-event  *)
(* trait                                                                  *)
NodeEventTraits == {"last_clicked_node", "last_hovered_node"}
EdgeEventTraits == {"last_clicked_edge", "last_hovered_edge"}

FrontendEvent ==
    \E w \in DOMAIN widgets : \E trait \in NodeEventTraits \cup EdgeEventTraits :
        LET lst == IF trait \in NodeEventTraits THEN widgets[w].nodes
                   ELSE widgets[w].edges
        IN  \E i \in DOMAIN store.lists[lst] :
            /\ Step(trait, w, i - 1, VNone, EmptyMap, "")
            /\ store' = store
            /\ widgets' = [widgets EXCEPT ![w][trait] = Contents(store, lst)[i]]

Next == Construct \/ FromData \/ UpdateNode \/ UpdateEdge \/ FrontendEvent

Spec == Init /\ [][Next]_vars

----------------------------------------------------------------------------
(* What a caller sees of a widget: its traits by value.                    *)

View(st, w) ==
    [nodes |-> Contents(st, w.nodes), edges |-> Contents(st, w.edges),
     props |-> w.props,
     last_clicked_node |-> w.last_clicked_node,
     last_hovered_node |-> w.last_hovered_node,
     last_clicked_edge |-> w.last_clicked_edge,
     last_hovered_edge |-> w.last_hovered_edge]

(* The last operation, if an update: the collection it addressed before   *)
(* and after, and the shape of its arguments.                             *)
IsUpdate == call.op \in {"update_node", "update_edge"}
CallTrait == IF call.op = "update_node" THEN "nodes" ELSE "edges"
OtherTrait == IF call.op = "update_node" THEN "edges" ELSE "nodes"
CallClass == IF call.op = "update_node" THEN "Node" ELSE "Edge"
Before == Contents(pre.store, pre.widgets[call.w][CallTrait])
After == Contents(store, widgets[call.w][CallTrait])
At == call.index + 1

GivenBoth == call.arg # VNone /\ Truthy(call.update)
GivenNeither == call.arg = VNone /\ ~Truthy(call.update)
GivenUpdateOnly == call.arg = VNone /\ Truthy(call.update)
GivenReplacementOnly == call.arg # VNone /\ ~Truthy(call.update)
ValidIndex == 0 <= call.index /\ call.index < Len(Before)

(* a raw mapping that lacks a required field or has a key that translates *)
(* to no declared field                                                   *)
Malformed(cls, m) ==
    \/ \E f \in ClassRequired(cls) : f \notin DOMAIN m
    \/ \E k \in DOMAIN m :
          _camel_case_to_snake_case(k) \notin Range(ClassFields(cls))

GivenMalformed ==
    GivenReplacementOnly /\ Tag(call.arg) = "dict"
        /\ Malformed(CallClass, Payload(call.arg))
GivenWellFormed ==
    \/ GivenUpdateOnly
    \/ GivenReplacementOnly /\ Tag(call.arg) = CallClass
    \/ GivenReplacementOnly /\ Tag(call.arg) = "dict"
          /\ ~Malformed(CallClass, Payload(call.arg))

AllViewsUnchanged ==
    /\ Len(widgets) = Len(pre.widgets)
    /\ \A w \in DOMAIN widgets : View(store, widgets[w]) = View(pre.store, pre.widgets[w])

----------------------------------------------------------------------------
(* C1: update_node and update_edge given both a replacement and update    *)
(* keywords, or neither, raise ValueError, for every index, and leave the *)
(* nodes, edges, props and last-event mappings of the widget as they      *)
(* were; with exactly one of the two they do not raise ValueError.        *)
C1_ExactlyOne ==
    IsUpdate =>
        /\ (GivenBoth \/ GivenNeither) <=> call.raised = "ValueError"
        /\ call.raised = "ValueError" => AllViewsUnchanged

C1_Witness ==
    /\ call.op = "update_node" /\ GivenBoth /\ ValidIndex
    /\ call.raised = "ValueError"
    /\ \E k \in DOMAIN call.update : k \notin DOMAIN Before[At]

(* C2: a partial update at a valid index leaves the shallow merge of the  *)
(* element with the update: each key of the update has the update's whole *)
(* value, each other key of the element keeps its value, and there are no *)
(* other keys.                                                            *)
C2_ShallowMerge ==
    (IsUpdate /\ GivenUpdateOnly /\ ValidIndex) =>
        /\ call.raised = ""
        /\ DOMAIN After[At] = (DOMAIN Before[At]) \cup (DOMAIN call.update)
        /\ \A k \in DOMAIN call.update : After[At][k] = call.update[k]
        /\ \A k \in (DOMAIN Before[At]) \ (DOMAIN call.update) :
              After[At][k] = Before[At][k]

(* an update whose nested value replaces a nested value with other keys *)
C2_Witness ==
    /\ call.op = "update_node" /\ GivenUpdateOnly /\ ValidIndex
    /\ call.raised = ""
    /\ \E k \in (DOMAIN call.update) \cap (DOMAIN Before[At]) :
          /\ Tag(call.update[k]) = "dict" /\ Tag(Before[At][k]) = "dict"
          /\ \E j \in DOMAIN Payload(Before[At][k]) : j \notin DOMAIN Payload(call.update[k])
          /\ After[At][k] = call.update[k]
    /\ \E k \in DOMAIN Before[At] : k \notin DOMAIN call.update

(* C3: a replacement at a valid index replaces the element wholesale: by  *)
(* the serialized descriptor when a descriptor is given, by the mapping   *)
(* itself when a mapping that passes validation is given; no key of the   *)
(* previous element survives unless the replacement has it, and a         *)
(* descriptor and its serialized mapping leave the same element.          *)
C3_Replace ==
    (IsUpdate /\ GivenReplacementOnly /\ ValidIndex /\ GivenWellFormed) =>
        /\ call.raised = ""
        /\ Tag(call.arg) = CallClass => After[At] = to_dict(call.arg)
        /\ Tag(call.arg) = "dict" => After[At] = Payload(call.arg)
        /\ \A d \in {NodeA, NodeB, EdgeA} :
              (Tag(d) = CallClass /\ call.arg \in {d, VDict(to_dict(d))})
                  => After[At] = to_dict(d)

(* an edge that had the animated flag is replaced by a mapping without it *)
C3_Witness ==
    /\ call.op = "update_edge" /\ GivenReplacementOnly /\ ValidIndex
    /\ call.raised = "" /\ Tag(call.arg) = "dict"
    /\ "animated" \in DOMAIN Before[At]
    /\ "animated" \notin DOMAIN After[At]

(* C4: an update changes at most the element at its index: the other     *)
(* elements of the collection, the other collection, props and the four   *)
(* last-event mappings of the widget are unchanged.                       *)
C4_Frame ==
    IsUpdate =>
        LET was == View(pre.store, pre.widgets[call.w])
            is == View(store, widgets[call.w])
        IN  /\ Len(After) = Len(Before)
            /\ \A j \in DOMAIN Before : j # At => After[j] = Before[j]
            /\ is[OtherTrait] = was[OtherTrait]
            /\ is.props = was.props
            /\ \A t \in NodeEventTraits \cup EdgeEventTraits : is[t] = was[t]

C4_Witness ==
    /\ call.op = "update_node" /\ ValidIndex /\ call.raised = ""
    /\ Len(Before) > 1
    /\ After[At] # Before[At]
    /\ widgets[call.w].last_clicked_node # EmptyMap

C6_IndexError ==
    (IsUpdate /\ ~ValidIndex /\ GivenWellFormed) => call.raised = "IndexError"

C8_NoInPlaceMutation ==
    (IsUpdate /\ call.raised = "") =>
        /\ widgets[call.w][CallTrait] \notin DOMAIN pre.store.lists
        /\ \A l \in DOMAIN pre.store.lists : store.lists[l] = pre.store.lists[l]
        /\ \A d \in DOMAIN pre.store.heap : store.heap[d] = pre.store.heap[d]

(* the old list still shows the old element although the widget shows a   *)
(* changed one                                                            *)
C8_Witness ==
    /\ IsUpdate /\ call.raised = "" /\ ValidIndex
    /\ After[At] # Before[At]
    /\ Contents(store, pre.widgets[call.w][CallTrait]) = Before

(* C9: a widget constructed with no arguments has the two demo nodes, the *)
(* demo edge, empty props and empty last-event mappings, whatever was     *)
(* done to widgets constructed before; an update on one widget changes no *)
(* other widget, and the module-level default lists keep their contents.  *)
DemoView ==
    [nodes |-> <<DefaultNode1, DefaultNode2>>, edges |-> <<DefaultEdge1>>,
     props |-> EmptyMap,
     last_clicked_node |-> EmptyMap, last_hovered_node |-> EmptyMap,
     last_clicked_edge |-> EmptyMap, last_hovered_edge |-> EmptyMap]

C9_Defaults ==
    /\ call.op = "XYFlowWidget" => View(store, widgets[call.w]) = DemoView
    /\ IsUpdate =>
          \A w \in DOMAIN widgets :
              w # call.w => View(store, widgets[w]) = View(pre.store, pre.widgets[w])
    /\ Contents(store, _default_nodes) = <<DefaultNode1, DefaultNode2>>
    /\ Contents(store, _default_edges) = <<DefaultEdge1>>

(* a default widget was updated, then another one is constructed *)
C9_Witness ==
    /\ call.op = "XYFlowWidget" /\ call.w > 1
    /\ \E w \in 1 .. (call.w - 1) :
          /\ widgets[w].nodes # NodesTraitDefault
          /\ Len(Contents(store, widgets[w].nodes)) = Len(DemoView.nodes)
          /\ \A i \in DOMAIN DemoView.nodes :
                Contents(store, widgets[w].nodes)[i].id = DemoView.nodes[i].id
          /\ View(store, widgets[w]).nodes # DemoView.nodes

(* C10: every node mapping of every widget has the keys id, position and  *)
(* data, and every edge mapping has the keys id, source and target.       *)
C10_WireShape ==
    \A w \in DOMAIN widgets :
        /\ \A i \in DOMAIN Contents(store, widgets[w].nodes) :
              {"id", "position", "data"} \subseteq DOMAIN Contents(store, widgets[w].nodes)[i]
        /\ \A i \in DOMAIN Contents(store, widgets[w].edges) :
              {"id", "source", "target"} \subseteq DOMAIN Contents(store, widgets[w].edges)[i]

----------------------------------------------------------------------------
(* The key codec on its own: a name is drawn, and the two functions are   *)
(* applied to it one after the other.  `call` holds the functions applied *)
(* so far, the name drawn and the string reached; no widget is involved.  *)

(* Bounds: the length of a name, and the number of applications *)
MaxLen == 4
MaxCalls == 2

(* two lowercase letters, a capital, a digit and the underscore *)
Alphabet == {"a", "b", "A", "1", "_"}

RECURSIVE Names(_)
Names(n) ==
    IF n = 0 THEN {""}
    ELSE LET shorter == Names(n - 1) IN
         shorter \cup {s \o c : s \in shorter, c \in Alphabet}

CodecInit ==
    /\ store = ModuleStore
    /\ widgets = <<>>
    /\ pre = [store |-> ModuleStore, widgets |-> <<>>]
    /\ nops = 0
    /\ \E name \in Names(MaxLen) : call = [op |-> <<>>, arg |-> name, ret |-> name]

SnakeToCamel ==
    /\ Len(call.op) < MaxCalls
    /\ call' = [op |-> Append(call.op, "_snake_case_to_camel_case"),
                arg |-> call.arg,
                ret |-> _snake_case_to_camel_case(call.ret)]
    /\ UNCHANGED <<store, widgets, pre, nops>>

CamelToSnake ==
    /\ Len(call.op) < MaxCalls
    /\ call' = [op |-> Append(call.op, "_camel_case_to_snake_case"),
                arg |-> call.arg,
                ret |-> _camel_case_to_snake_case(call.ret)]
    /\ UNCHANGED <<store, widgets, pre, nops>>

CodecNext == SnakeToCamel \/ CamelToSnake

CodecSpec == CodecInit /\ [][CodecNext]_vars

(* What the claims about the codec speak of *)
Digits == {"0", "1", "2", "3", "4", "5", "6", "7", "8", "9"}
Chars(s) == {CharAt(s, i) : i \in 1..Len(s)}

(* lowercase words of letters and digits, each starting with a letter,    *)
(* separated by single underscores                                        *)
ValidSnake(s) ==
    /\ Len(s) > 0
    /\ Chars(s) \subseteq LowerSet \cup Digits \cup {"_"}
    /\ CharAt(s, 1) \in LowerSet
    /\ CharAt(s, Len(s)) # "_"
    /\ \A i \in 2..Len(s) : CharAt(s, i - 1) = "_" => CharAt(s, i) \in LowerSet

(* letters and digits starting with a letter, no underscore *)
ValidCamel(s) ==
    /\ Len(s) > 0
    /\ Chars(s) \subseteq LowerSet \cup UpperSet \cup Digits
    /\ CharAt(s, 1) \in LowerSet \cup UpperSet

RoundTripFromSnake ==
    call.op = <<"_snake_case_to_camel_case", "_camel_case_to_snake_case">>
RoundTripFromCamel ==
    call.op = <<"_camel_case_to_snake_case", "_snake_case_to_camel_case">>

(* C11: a valid lower-snake-case name (lowercase words separated by single *)
(* underscores, no word starting with a digit) converted to camelCase and  *)
(* back is the name itself.                                                *)
C11_SnakeRoundTrip ==
    (RoundTripFromSnake /\ ValidSnake(call.arg)) => call.ret = call.arg

(* a name of two words, the first one ending with a digit *)
C11_Witness ==
    /\ RoundTripFromSnake /\ ValidSnake(call.arg)
    /\ \E i \in 2..Len(call.arg) :
          CharAt(call.arg, i) = "_" /\ CharAt(call.arg, i - 1) \in Digits
    /\ call.ret = call.arg

(* C12: a valid camelCase name (letters and digits, no underscore, runs of *)
(* capitals or digits included) converted to snake_case and back is the    *)
(* name itself.                                                            *)
C12_CamelRoundTrip ==
    (RoundTripFromCamel /\ ValidCamel(call.arg)) => call.ret = call.arg

(* a name with two capitals in a row *)
C12_Witness ==
    /\ RoundTripFromCamel /\ ValidCamel(call.arg)
    /\ \E i \in 2..Len(call.arg) :
          IsUpper(CharAt(call.arg, i)) /\ IsUpper(CharAt(call.arg, i - 1))
    /\ call.ret = call.arg

(* the positions of a snake_case name that survive: the first one and     *)
(* every one that holds no underscore                                     *)
Kept(s) == {i \in 1..Len(s) : i = 1 \/ CharAt(s, i) # "_"}
Rank(s, i) == Cardinality({p \in Kept(s) : p <= i})
AfterRemoved(s, i) == i >= 3 /\ CharAt(s, i - 1) = "_"

(* C13: _snake_case_to_camel_case keeps the first character as it is,     *)
(* removes every underscore after the first character and uppercases the  *)
(* character that follows a removed underscore; every other character     *)
(* keeps its case, and a name without underscores is returned unchanged.  *)
C13_SnakeToCamel ==
    call.op = <<"_snake_case_to_camel_case">> =>
        /\ Len(call.ret) = Cardinality(Kept(call.arg))
        /\ \A i \in Kept(call.arg) :
              CharAt(call.ret, Rank(call.arg, i)) =
                  IF AfterRemoved(call.arg, i) THEN Upper(CharAt(call.arg, i))
                  ELSE CharAt(call.arg, i)
        /\ "_" \notin Chars(call.arg) => call.ret = call.arg

(* an underscore is removed and the letter after it uppercased *)
C13_Witness ==
    /\ call.op = <<"_snake_case_to_camel_case">>
    /\ call.arg = "a_b" /\ call.ret = "aB"

(* where the character at a position of a camelCase name starts in the    *)
(* snake_case name: one further for every capital met before it           *)
Capital(s, i) == i >= 2 /\ IsUpper(CharAt(s, i))
Start(s, i) == i + Cardinality({j \in 2..(i - 1) : Capital(s, j)})

(* C14: _camel_case_to_snake_case replaces every uppercase letter that is *)
(* not the first character by an underscore and its lowercase form, and   *)
(* leaves every other character, the first one included, as it is.        *)
C14_CamelToSnake ==
    call.op = <<"_camel_case_to_snake_case">> =>
        /\ Len(call.ret) =
              Len(call.arg) + Cardinality({j \in 1..Len(call.arg) : Capital(call.arg, j)})
        /\ \A i \in 1..Len(call.arg) :
              IF Capital(call.arg, i)
              THEN /\ CharAt(call.ret, Start(call.arg, i)) = "_"
                   /\ CharAt(call.ret, Start(call.arg, i) + 1) \in LowerSet
                   /\ Upper(CharAt(call.ret, Start(call.arg, i) + 1)) = CharAt(call.arg, i)
              ELSE CharAt(call.ret, Start(call.arg, i)) = CharAt(call.arg, i)

(* a capital in first place is kept, a later one is replaced *)
C14_Witness ==
    /\ call.op = <<"_camel_case_to_snake_case">>
    /\ call.arg = "AaA" /\ call.ret = "Aa_a"

----------------------------------------------------------------------------
(* The descriptors on their own: a class and a mapping are drawn; the     *)
(* mapping is given to the constructor as keywords or to from_dict, and   *)
(* to_dict and from_dict are applied to what comes back.  `call` holds    *)
(* the methods applied so far, the class, the mapping drawn, the value    *)
(* the last method was applied to (self), its result (ret) and the error  *)
(* it raised.                                                             *)

(* Bounds: the entries of a mapping beside the mandatory ones, and the    *)
(* number of methods applied in a row                                     *)
MaxSet == 2
MaxSteps == 4

HandleA == New("XYHandle", [id |-> VStr("h"), type |-> VStr("source")])

(* the mandatory entries: all of them, or one missing *)
NodeBases ==
    { [id |-> VStr("n"), position |-> VTuple(<<VNum(100), VNum(200)>>)],
      [id |-> VStr("n"), position |-> VDict([x |-> VNum(50), y |-> VNum(75)])],
      [id |-> VStr("n")] }
EdgeBases ==
    { [id |-> VStr("e"), source |-> VStr("a"), target |-> VStr("b")],
      [id |-> VStr("e"), source |-> VStr("a")] }
PropsBases == { EmptyMap }

(* for a field, the entries <<key, value>> a mapping may give it: the key *)
(* in either spelling, the value set, falsy or None                       *)
NodeChoices ==
    [ data |-> { <<"data", VDict(EmptyMap)>>, <<"data", VDict([label |-> VStr("Test")])>> },
      selected |-> { <<"selected", VBool(FALSE)>>, <<"selected", VNone>> },
      z_index |-> { <<"z_index", VNum(0)>>, <<"zIndex", VNum(5)>> },
      handles |-> { <<"handles", VList(<<HandleA>>)>>,
                    <<"handles", VList(<<asdict(HandleA)>>)>> },
      extra |-> { <<"extra", VDict(EmptyMap)>>,
                  <<"extra", VDict([customField |-> VStr("custom_value")])>>,
                  <<"extra", VDict([position |-> VTuple(<<VNum(3), VNum(4)>>),
                                    zIndex |-> VNum(9)])>> },
      unknown |-> { <<"fooBar", VNum(1)>> } ]
EdgeChoices ==
    [ data |-> { <<"data", VDict(EmptyMap)>>, <<"data", VDict([weight |-> VNum(5)])>> },
      animated |-> { <<"animated", VBool(FALSE)>>, <<"animated", VNone>> },
      z_index |-> { <<"z_index", VNum(0)>>, <<"zIndex", VNum(5)>> },
      extra |-> { <<"extra", VDict(EmptyMap)>>,
                  <<"extra", VDict([customAttr |-> VStr("value")])>>,
                  <<"extra", VDict([data |-> VDict([weight |-> VNum(7)]),
                                    animated |-> VBool(TRUE)])>> },
      unknown |-> { <<"fooBar", VNum(1)>> } ]
PropsChoices ==
    [ fit_view |-> { <<"fit_view", VBool(TRUE)>>, <<"fitView", VBool(FALSE)>> },
      min_zoom |-> { <<"min_zoom", VNum(0)>>, <<"minZoom", VNum(2)>> },
      snap_grid |-> { <<"snap_grid", VTuple(<<VNum(20), VNum(20)>>)>>,
                      <<"snap_grid", VNone>> },
      extra_props |-> { <<"extra_props", VNone>>, <<"extra_props", VDict(EmptyMap)>>,
                        <<"extra_props", VDict([fitView |-> VBool(FALSE),
                                                customProp |-> VStr("custom_value")])>> },
      unknown |-> { <<"fooBar", VNum(1)>> } ]

Bases(cls) ==
    CASE cls = "Node" -> NodeBases [] cls = "Edge" -> EdgeBases [] cls = "Props" -> PropsBases
Choices(cls) ==
    CASE cls = "Node" -> NodeChoices [] cls = "Edge" -> EdgeChoices
      [] cls = "Props" -> PropsChoices

(* the mappings that give an entry to at most n of the fields *)
RECURSIVE Picks(_, _, _)
Picks(choices, fields, n) ==
    IF n = 0 \/ fields = {} THEN {EmptyMap}
    ELSE LET f == CHOOSE g \in fields : TRUE IN
         Picks(choices, fields \ {f}, n)
             \cup {Merge(m, e[1] :> e[2]) :
                      m \in Picks(choices, fields \ {f}, n - 1), e \in choices[f]}

Mappings(cls) ==
    {Merge(b, m) : b \in Bases(cls), m \in Picks(Choices(cls), DOMAIN Choices(cls), MaxSet)}

(* to_dict raises when asdict meets a handle that is no dataclass instance *)
ToDictOk(obj) ==
    (Tag(obj) = "Node" /\ Payload(obj).handles # VNone) =>
        \A i \in DOMAIN Payload(Payload(obj).handles) :
            Tag(Payload(Payload(obj).handles)[i]) = "XYHandle"

DescriptorInit ==
    /\ store = ModuleStore
    /\ widgets = <<>>
    /\ pre = [store |-> ModuleStore, widgets |-> <<>>]
    /\ nops = 0
    /\ \E cls \in {"Node", "Edge", "Props"} : \E dct \in Mappings(cls) :
          call = [op |-> <<>>, cls |-> cls, arg |-> dct, self |-> VNone,
                  ret |-> VDict(dct), raised |-> ""]

Apply(op, ret, raised) ==
    /\ call.raised = ""
    /\ Len(call.op) < MaxSteps
    /\ call' = [call EXCEPT !.op = Append(@, op), !.self = call.ret,
                            !.ret = ret, !.raised = raised]
    /\ UNCHANGED <<store, widgets, pre, nops>>

(* the constructor called with the mapping drawn as its keywords *)
NewDescriptor ==
    /\ call.op = <<>>
    /\ IF InitOk(call.cls, call.arg)
       THEN Apply("__init__", New(call.cls, call.arg), "")
       ELSE Apply("__init__", VNone, "TypeError")

FromDict ==
    /\ Tag(call.ret) = "dict"
    /\ IF FromDictOk(call.cls, Payload(call.ret))
       THEN Apply("from_dict", from_dict(call.cls, Payload(call.ret)), "")
       ELSE Apply("from_dict", VNone, "TypeError")

ToDict ==
    /\ Tag(call.ret) = call.cls
    /\ IF ToDictOk(call.ret)
       THEN Apply("to_dict", VDict(to_dict(call.ret)), "")
       ELSE Apply("to_dict", VNone, "TypeError")

DescriptorNext == NewDescriptor \/ FromDict \/ ToDict

DescriptorSpec == DescriptorInit /\ [][DescriptorNext]_vars

(* What the claims about the descriptors speak of *)
LastOp == IF call.op = <<>> THEN "" ELSE call.op[Len(call.op)]
Serialized == LastOp = "to_dict" /\ call.raised = ""
Deserialized == LastOp = "from_dict"

BagField(cls) == IF cls = "Props" THEN "extra_props" ELSE "extra"
Bag(d) == Payload(d)[BagField(Tag(d))]
EmptyBag(d) == Bag(d) \in {VNone, VDict(EmptyMap)}
BagKeys(d) == IF EmptyBag(d) THEN {} ELSE DOMAIN Payload(Bag(d))
WithoutBag(d) ==
    VObj(Tag(d), [Payload(d) EXCEPT ![BagField(Tag(d))] = VDict(EmptyMap)])

(* the fields declared with the default None, the bag apart *)
OptionalFields(cls) ==
    {f \in Range(ClassFields(cls)) : ClassDefault(cls, f) = VNone} \ {BagField(cls)}

(* a descriptor made from its mandatory fields alone *)
Minimal(d) ==
    d = New(Tag(d), [f \in ClassRequired(Tag(d)) |-> Payload(d)[f]])

(* C15: for a Props, Node or Edge with an empty extra bag, to_dict() has   *)
(* the camelCase key of an optional field exactly when the field's value  *)
(* is not None, no key of it has the value None, and Props().to_dict() is *)
(* the empty mapping.                                                     *)
C15_UnsetOmitted ==
    (Serialized /\ EmptyBag(call.self)) =>
        /\ \A f \in OptionalFields(call.cls) :
              (_snake_case_to_camel_case(f) \in DOMAIN Payload(call.ret))
                  <=> (Payload(call.self)[f] # VNone)
        /\ \A k \in DOMAIN Payload(call.ret) : Payload(call.ret)[k] # VNone
        /\ call.self = New("Props", EmptyMap) => Payload(call.ret) = EmptyMap

(* a node with z_index 0 and selected None: the first is written, the     *)
(* second is not                                                          *)
C15_Witness ==
    /\ Serialized /\ EmptyBag(call.self) /\ call.cls = "Node"
    /\ Payload(call.self).z_index = VNum(0)
    /\ Payload(call.self).selected = VNone
    /\ "zIndex" \in DOMAIN Payload(call.ret)
    /\ "selected" \notin DOMAIN Payload(call.ret)

(* C16: to_dict() has every key of the extra bag (extra, or extra_props   *)
(* of a Props) with the bag's value, also where a declared field wrote    *)
(* the key, and every other key with the value the declared fields give.  *)
C16_BagMergedLast ==
    Serialized =>
        LET out == Payload(call.ret)
            declared == to_dict(WithoutBag(call.self))
        IN  /\ \A k \in BagKeys(call.self) :
                  k \in DOMAIN out /\ out[k] = Payload(Bag(call.self))[k]
            /\ DOMAIN out = DOMAIN declared \cup BagKeys(call.self)
            /\ \A k \in DOMAIN out \ BagKeys(call.self) : out[k] = declared[k]

(* Props(fit_view=True, extra_props={'fitView': False, ...}) *)
C16_Witness ==
    /\ Serialized /\ call.cls = "Props"
    /\ Payload(call.self).fit_view = VBool(TRUE)
    /\ "fitView" \in BagKeys(call.self)
    /\ Payload(call.ret)["fitView"] = VBool(FALSE)
    /\ Payload(call.ret)["customProp"] = VStr("custom_value")

(* C17 as stated: Node.to_dict() always has the key data, a minimal node  *)
(* gives exactly id, position and an empty data; Edge.to_dict() has the   *)
(* key data exactly when the edge's data is not empty, a minimal edge     *)
(* gives exactly id, source and target.                                   *)
C17_PayloadPolicy ==
    Serialized =>
        LET out == Payload(call.ret) IN
        /\ call.cls = "Node" => "data" \in DOMAIN out
        /\ (call.cls = "Node" /\ Minimal(call.self)) =>
              /\ DOMAIN out = {"id", "position", "data"}
              /\ out["data"] = VDict(EmptyMap)
        /\ call.cls = "Edge" =>
              (("data" \in DOMAIN out) <=> (Payload(call.self).data # VDict(EmptyMap)))
        /\ (call.cls = "Edge" /\ Minimal(call.self)) =>
              DOMAIN out = {"id", "source", "target"}

(* C17, amended: the same, the edge's key data being decided by its data  *)
(* field when the extra bag has no key data.                              *)
C17_PayloadPolicyApartFromBag ==
    Serialized =>
        LET out == Payload(call.ret) IN
        /\ call.cls = "Node" => "data" \in DOMAIN out
        /\ (call.cls = "Node" /\ Minimal(call.self)) =>
              /\ DOMAIN out = {"id", "position", "data"}
              /\ out["data"] = VDict(EmptyMap)
        /\ (call.cls = "Edge" /\ "data" \notin BagKeys(call.self)) =>
              (("data" \in DOMAIN out) <=> (Payload(call.self).data # VDict(EmptyMap)))
        /\ (call.cls = "Edge" /\ Minimal(call.self)) =>
              DOMAIN out = {"id", "source", "target"}

(* an edge with an empty data and a bag of other keys: no key data *)
C17_Witness ==
    /\ Serialized /\ call.cls = "Edge"
    /\ BagKeys(call.self) # {} /\ "data" \notin BagKeys(call.self)
    /\ Payload(call.self).data = VDict(EmptyMap)
    /\ "data" \notin DOMAIN Payload(call.ret)

(* C18 as stated: whatever the node's other fields and extra bag, the     *)
(* position of Node.to_dict() is an {x, y} mapping: {x: a, y: b} for a    *)
(* position given as the pair (a, b), the mapping itself for a position   *)
(* given as a mapping.                                                    *)
C18_PositionNormalized ==
    (Serialized /\ call.cls = "Node") =>
        LET position == Payload(call.self).position
            out == Payload(call.ret)
        IN  /\ Tag(out["position"]) = "dict"
            /\ DOMAIN Payload(out["position"]) = {"x", "y"}
            /\ Tag(position) = "tuple" =>
                  out["position"] = VDict([x |-> Payload(position)[1],
                                           y |-> Payload(position)[2]])
            /\ Tag(position) = "dict" => out["position"] = position

(* C18, amended: the same for every node whose extra bag has no key       *)
(* position.                                                              *)
C18_PositionNormalizedApartFromBag ==
    (Serialized /\ call.cls = "Node" /\ "position" \notin BagKeys(call.self)) =>
        LET position == Payload(call.self).position
            out == Payload(call.ret)
        IN  /\ Tag(out["position"]) = "dict"
            /\ DOMAIN Payload(out["position"]) = {"x", "y"}
            /\ Tag(position) = "tuple" =>
                  out["position"] = VDict([x |-> Payload(position)[1],
                                           y |-> Payload(position)[2]])
            /\ Tag(position) = "dict" => out["position"] = position

(* a node given a pair, with a bag of other keys *)
C18_Witness ==
    /\ Serialized /\ call.cls = "Node"
    /\ BagKeys(call.self) # {} /\ "position" \notin BagKeys(call.self)
    /\ Payload(call.self).position = VTuple(<<VNum(100), VNum(200)>>)
    /\ Payload(call.ret)["position"] = VDict([x |-> VNum(100), y |-> VNum(200)])

(* C19: from_dict of a mapping with a key whose translation by the        *)
(* inverse codec is no declared field, or without a mandatory field,      *)
(* raises and gives no descriptor; of any other mapping it gives the      *)
(* descriptor whose field named by a key's translation has the key's      *)
(* value, every other field its default.                                  *)
C19_FromDictPolicy ==
    Deserialized =>
        LET dct == Payload(call.self)
            named == {_camel_case_to_snake_case(k) : k \in DOMAIN dct}
        IN  IF Malformed(call.cls, dct)
            THEN call.raised = "TypeError" /\ call.ret = VNone
            ELSE /\ call.raised = "" /\ Tag(call.ret) = call.cls
                 /\ \A k \in DOMAIN dct :
                       Payload(call.ret)[_camel_case_to_snake_case(k)] = dct[k]
                 /\ \A f \in Range(ClassFields(call.cls)) \ named :
                       Payload(call.ret)[f] = ClassDefault(call.cls, f)

(* a mapping with all mandatory entries and an unknown key is refused *)
C19_Witness ==
    /\ Deserialized /\ call.raised = "TypeError"
    /\ ClassRequired(call.cls) \subseteq DOMAIN Payload(call.self)
    /\ "fooBar" \in DOMAIN Payload(call.self)

----------------------------------------------------------------------------
(* from_networkx (nx.py).  A graph is its nodes in insertion order, each  *)
(* with its attribute mapping, and its edges in the order G.edges yields  *)
(* them, each with its two endpoints and its attribute mapping.           *)

(* str(n) of a node: the string itself, the decimal digits of a number *)
DigitChars == "0123456789"

RECURSIVE IntStr(_)
IntStr(n) ==
    IF n < 10 THEN CharAt(DigitChars, n + 1)
    ELSE IntStr(n \div 10) \o CharAt(DigitChars, (n % 10) + 1)

Str(v) == IF Tag(v) = "str" THEN Payload(v) ELSE IntStr(Payload(v))

(* the names for which the layout library has a function <name>_layout *)
LayoutFunctions == {"spring", "shell", "kamada_kawai"}

(* G.nodes[n] *)
G_nodes(G, n) == G.nodes[CHOOSE i \in DOMAIN G.nodes : G.nodes[i].node = n].attrs

(* dict.fromkeys(G.nodes(), (0, 0)) *)
NoLayout(G) == [i \in DOMAIN G.nodes |-> <<G.nodes[i].node, <<0, 0>>>>]

_merge(a, b) == Merge(a, b)

(* Variant of the node loop: the default label is written over the data *)
(* of the attributes                                                      *)
RECURSIVE NxNodesLoopLabelLast(_, _, _, _, _, _, _)
NxNodesLoopLabelLast(st, nodes, G, positions, scale, node_defaults, i) ==
    IF i > Len(positions) THEN st
    ELSE LET n == positions[i][1]
             x == positions[i][2][1]
             y == positions[i][2][2]
             attrs == _merge(node_defaults, G_nodes(G, n))
             popped == IF "data" \in DOMAIN attrs THEN Payload(attrs["data"])
                       ELSE EmptyMap
             rest == [k \in DOMAIN attrs \ {"data"} |-> attrs[k]]
             node == [id |-> VStr(Str(n)),
                      position |-> VDict([x |-> VNum(x * scale), y |-> VNum(y * scale)]),
                      data |-> VDict(Merge(popped, "label" :> VStr(Str(n))))]
             s1 == AllocDict(st, Merge(node, rest))
         IN  NxNodesLoopLabelLast(ListAppend(s1, nodes, LastDict(s1)), nodes, G,
                                  positions, scale, node_defaults, i + 1)

(* the loop over positions.items(); positions[i] is <<n, <<x, y>>>> *)
RECURSIVE NxNodesLoop(_, _, _, _, _, _, _)
NxNodesLoop(st, nodes, G, positions, scale, node_defaults, i) ==
    IF i > Len(positions) THEN st
    ELSE LET n == positions[i][1]
             x == positions[i][2][1]
             y == positions[i][2][2]
             attrs == _merge(node_defaults, G_nodes(G, n))
             popped == IF "data" \in DOMAIN attrs THEN Payload(attrs["data"])
                       ELSE EmptyMap
             rest == [k \in DOMAIN attrs \ {"data"} |-> attrs[k]]
             node == [id |-> VStr(Str(n)),
                      position |-> VDict([x |-> VNum(x * scale), y |-> VNum(y * scale)]),
                      data |-> VDict(Merge("label" :> VStr(Str(n)), popped))]
             s1 == AllocDict(st, Merge(node, rest))
         IN  NxNodesLoop(ListAppend(s1, nodes, LastDict(s1)), nodes, G, positions,
                         scale, node_defaults, i + 1)

(* the loop over G.edges(data=True) *)
RECURSIVE NxEdgesLoop(_, _, _, _, _)
NxEdgesLoop(st, edges, G, edge_defaults, i) ==
    IF i > Len(G.edges) THEN st
    ELSE LET u == G.edges[i].u
             v == G.edges[i].v
             attrs == _merge(edge_defaults, G.edges[i].attrs)
             edge == [id |-> VStr((("e" \o Str(u)) \o "-") \o Str(v)),
                      source |-> VStr(Str(u)), target |-> VStr(Str(v))]
             s1 == AllocDict(st, Merge(edge, attrs))
         IN  NxEdgesLoop(ListAppend(s1, edges, LastDict(s1)), edges, G,
                         edge_defaults, i + 1)

(* Variant of from_networkx: an unknown layout name is taken as no layout *)
FromNetworkxAnyLayout(st, G, layout, scale, node_defaults, edge_defaults, rf_config, layout_result) ==
    LET known == layout = VStr("graphviz")
                     \/ (layout # VNone /\ Payload(layout) \in LayoutFunctions)
        positions == IF known THEN layout_result ELSE NoLayout(G)
        s1 == AllocList(st, <<>>)
        nodes == LastList(s1)
        s2 == NxNodesLoop(s1, nodes, G, positions, scale,
                          IF node_defaults = VNone THEN EmptyMap
                          ELSE Payload(node_defaults), 1)
        s3 == AllocList(s2, <<>>)
        edges == LastList(s3)
        s4 == NxEdgesLoop(s3, edges, G,
                          IF edge_defaults = VNone THEN EmptyMap
                          ELSE Payload(edge_defaults), 1)
    IN  [raised |-> "", msg |-> "", st |-> s4,
         self |-> Widget(nodes, edges,
                         IF rf_config # VNone THEN Props_to_dict(rf_config)
                         ELSE EmptyMap)]

(* from_networkx; layout_result is what the layout function returns when  *)
(* one is called                                                          *)
from_networkx(st, G, layout, scale, node_defaults, edge_defaults, rf_config, layout_result) ==
    IF layout # VNone /\ layout # VStr("graphviz")
          /\ Payload(layout) \notin LayoutFunctions
    THEN [raised |-> "ValueError",
          msg |-> ("Unsupported layout '" \o Payload(layout)) \o "'",
          st |-> st, self |-> VNone]
    ELSE LET positions == IF layout = VNone THEN NoLayout(G) ELSE layout_result
             s1 == AllocList(st, <<>>)
             nodes == LastList(s1)
             s2 == NxNodesLoop(s1, nodes, G, positions, scale,
                               IF node_defaults = VNone THEN EmptyMap
                               ELSE Payload(node_defaults), 1)
             s3 == AllocList(s2, <<>>)
             edges == LastList(s3)
             s4 == NxEdgesLoop(s3, edges, G,
                               IF edge_defaults = VNone THEN EmptyMap
                               ELSE Payload(edge_defaults), 1)
         IN  [raised |-> "", msg |-> "", st |-> s4,
              self |-> Widget(nodes, edges,
                              IF rf_config # VNone THEN Props_to_dict(rf_config)
                              ELSE EmptyMap)]

(* Bound: the number of nodes of a graph *)
MaxNodes == 2

(* the nodes a graph is made of, in the order they are added: numbers and *)
(* strings, two of them with the same str()                               *)
NodeOrders ==
    { <<VNum(1), VStr("1"), VStr("A"), VNum(2)>>,
      <<VStr("A"), VStr("B"), VNum(10), VStr("C")>> }

NodeAttrChoices ==
    { EmptyMap,
      [style |-> VDict([backgroundColor |-> VStr("blue")]),
       data |-> VDict([label |-> VStr("Custom"), value |-> VNum(42)])],
      [id |-> VStr("x"), position |-> VDict([x |-> VNum(7), y |-> VNum(7)])] }

(* the edges of a graph, by the places of their endpoints in the order *)
EdgeOrder == << <<1, 2>>, <<2, 1>> >>

EdgeAttrChoices ==
    { EmptyMap,
      [label |-> VStr("own"), id |-> VStr("custom"), source |-> VStr("pubmed")] }

EdgesWithin(n) == {j \in DOMAIN EdgeOrder : EdgeOrder[j][1] <= n /\ EdgeOrder[j][2] <= n}

Graph(order, n, m, node_attrs, edge_attrs) ==
    [nodes |-> [i \in 1..n |-> [node |-> order[i], attrs |-> node_attrs[i]]],
     edges |-> [j \in 1..m |-> [u |-> order[EdgeOrder[j][1]],
                                v |-> order[EdgeOrder[j][2]],
                                attrs |-> edge_attrs[j]]]]

NxGraphs ==
    UNION { UNION { UNION {
        { Graph(order, n, m, node_attrs, edge_attrs) :
              node_attrs \in [1..n -> NodeAttrChoices],
              edge_attrs \in [1..m -> EdgeAttrChoices] }
        : m \in 0..Cardinality(EdgesWithin(n)) }
        : n \in {k \in 0..MaxNodes : k <= Len(order)} }
        : order \in NodeOrders }

NxLayouts == {VNone, VStr("spring"), VStr("graphviz"), VStr("bogus")}
NxScales == {1, 400}
NxNodeDefaults ==
    { VNone,
      VDict([style |-> VDict([backgroundColor |-> VStr("red")]),
             draggable |-> VBool(TRUE),
             data |-> VDict([label |-> VStr("Default"), kind |-> VStr("d")])]) }
NxEdgeDefaults ==
    { VNone, VDict([animated |-> VBool(TRUE), label |-> VStr("default")]) }
NxConfigs == { VNone, PropsA }

(* what a layout function may return: a coordinate pair for every node of *)
(* the graph, in node order                                               *)
Offsets == { <<0, 0>>, <<1, -2>> }
LayoutResults(G, layout) ==
    IF layout = VNone \/ (layout # VStr("graphviz") /\ Payload(layout) \notin LayoutFunctions)
    THEN { <<>> }
    ELSE { [i \in DOMAIN G.nodes |->
               <<G.nodes[i].node, <<off[1] + i - 1, off[2] * i>>>>] : off \in Offsets }

NxInit ==
    /\ store = ModuleStore
    /\ widgets = <<>>
    /\ pre = [store |-> ModuleStore, widgets |-> <<>>]
    /\ nops = 0
    /\ \E G \in NxGraphs : call = [op |-> "", G |-> G]

FromNetworkx ==
    /\ call.op = ""
    /\ \E layout \in NxLayouts : \E scale \in NxScales :
       \E node_defaults \in NxNodeDefaults : \E edge_defaults \in NxEdgeDefaults :
       \E rf_config \in NxConfigs : \E layout_result \in LayoutResults(call.G, layout) :
          LET r == from_networkx(store, call.G, layout, scale, node_defaults,
                                 edge_defaults, rf_config, layout_result)
          IN  /\ call' = [op |-> "from_networkx", G |-> call.G, layout |-> layout,
                          scale |-> scale, node_defaults |-> node_defaults,
                          edge_defaults |-> edge_defaults, rf_config |-> rf_config,
                          layout_result |-> layout_result,
                          raised |-> r.raised, msg |-> r.msg]
              /\ store' = r.st
              /\ widgets' = IF r.raised = "" THEN Append(widgets, r.self) ELSE widgets
              /\ pre' = [store |-> store, widgets |-> widgets]
              /\ nops' = nops + 1

NxNext == FromNetworkx

NxSpec == NxInit /\ [][NxNext]_vars

(* What the claims about from_networkx speak of *)
Imported == call.op = "from_networkx" /\ call.raised = ""
OutNodes == Contents(store, widgets[Len(widgets)].nodes)
OutEdges == Contents(store, widgets[Len(widgets)].edges)

(* C20: from_networkx of a graph with N nodes and M edges, under every    *)
(* accepted layout and any defaults, gives a widget with N node mappings  *)
(* and M edge mappings, and the ids of the node mappings are exactly the  *)
(* str() of the nodes of the graph.                                       *)
C20_CountsAndIds ==
    Imported =>
        /\ Len(OutNodes) = Len(call.G.nodes)
        /\ Len(OutEdges) = Len(call.G.edges)
        /\ {OutNodes[i]["id"] : i \in DOMAIN OutNodes}
              = {VStr(Str(call.G.nodes[i].node)) : i \in DOMAIN call.G.nodes}

(* the node of the graph that the i-th node mapping was made from *)
NodeOf(i) == call.G.nodes[i].node
Origin == VDict([x |-> VNum(0), y |-> VNum(0)])

(* C21: from_networkx with layout None gives every node the position      *)
(* {x: 0.0, y: 0.0}, whatever the attributes of the nodes, the scale and  *)
(* the node defaults, and calls no layout function.                       *)
C21_NoLayoutOrigin ==
    (Imported /\ call.layout = VNone) =>
        /\ call.layout_result = <<>>
        /\ \A i \in DOMAIN OutNodes : OutNodes[i]["position"] = Origin

Defaults(d) == IF d = VNone THEN EmptyMap ELSE Payload(d)

(* a key outside `reserved` is in the output with the element's own      *)
(* value, else with the default's, else not at all                        *)
MergedOver(out, own, defaults, reserved) ==
    \A k \in (DOMAIN out \cup DOMAIN own \cup DOMAIN defaults) \ reserved :
        IF k \in DOMAIN own THEN k \in DOMAIN out /\ out[k] = own[k]
        ELSE IF k \in DOMAIN defaults THEN k \in DOMAIN out /\ out[k] = defaults[k]
        ELSE k \notin DOMAIN out

(* C22: for every node (edge) and every key other than the keys the       *)
(* importer builds, the output mapping has the key with the element's own *)
(* attribute value when the element has it, with the value of             *)
(* node_defaults (edge_defaults) when only the defaults have it, and has  *)
(* no such key otherwise; an own value replaces the default value whole.  *)
C22_DefaultMerging ==
    Imported =>
        /\ \A i \in DOMAIN OutNodes :
              MergedOver(OutNodes[i], call.G.nodes[i].attrs,
                         Defaults(call.node_defaults), {"id", "position", "data"})
        /\ \A j \in DOMAIN OutEdges :
              MergedOver(OutEdges[j], call.G.edges[j].attrs,
                         Defaults(call.edge_defaults), {"id", "source", "target"})

(* a node with its own style under defaults with a style and draggable,   *)
(* and an edge with its own label under defaults with a label             *)
C22_Witness ==
    /\ Imported
    /\ \E i \in DOMAIN OutNodes :
          /\ "style" \in DOMAIN call.G.nodes[i].attrs
          /\ "style" \in DOMAIN Defaults(call.node_defaults)
          /\ "draggable" \notin DOMAIN call.G.nodes[i].attrs
          /\ "draggable" \in DOMAIN Defaults(call.node_defaults)
          /\ OutNodes[i]["style"] = VDict([backgroundColor |-> VStr("blue")])
          /\ OutNodes[i]["draggable"] = VBool(TRUE)
    /\ \E j \in DOMAIN OutEdges :
          /\ "label" \in DOMAIN call.G.edges[j].attrs
          /\ "animated" \in DOMAIN Defaults(call.edge_defaults)
          /\ OutEdges[j]["label"] = VStr("own")
          /\ OutEdges[j]["animated"] = VBool(TRUE)

(* the data mapping of the merged attributes of a node: its own, else the *)
(* defaults', else none                                                   *)
SuppliedData(own, defaults) ==
    IF "data" \in DOMAIN own THEN Payload(own["data"])
    ELSE IF "data" \in DOMAIN defaults THEN Payload(defaults["data"])
    ELSE EmptyMap

(* C23: the data of every output node is {label: str(n)} overwritten key  *)
(* by key by the data mapping of the merged attributes (the node's own    *)
(* data, else the data of node_defaults): exactly {label: str(n)} when no *)
(* data is supplied, the supplied label when there is one; the supplied   *)
(* data is not also written as it stands at top level.                    *)
C23_NodePayload ==
    Imported =>
        \A i \in DOMAIN OutNodes :
            LET supplied == SuppliedData(call.G.nodes[i].attrs,
                                         Defaults(call.node_defaults))
                data == Payload(OutNodes[i]["data"])
            IN  /\ Tag(OutNodes[i]["data"]) = "dict"
                /\ DOMAIN data = {"label"} \cup DOMAIN supplied
                /\ \A k \in DOMAIN supplied : data[k] = supplied[k]
                /\ "label" \notin DOMAIN supplied =>
                      data["label"] = VStr(Str(call.G.nodes[i].node))

(* a node with its own data under defaults with data, and a node with no  *)
(* data of its own under the same defaults                                *)
C23_Witness ==
    /\ Imported /\ "data" \in DOMAIN Defaults(call.node_defaults)
    /\ \E i \in DOMAIN OutNodes :
          /\ "data" \in DOMAIN call.G.nodes[i].attrs
          /\ OutNodes[i]["data"] =
                VDict([label |-> VStr("Custom"), value |-> VNum(42)])
    /\ \E i \in DOMAIN OutNodes :
          /\ "data" \notin DOMAIN call.G.nodes[i].attrs
          /\ OutNodes[i]["data"] =
                VDict([label |-> VStr("Default"), kind |-> VStr("d")])

(* C24: for every edge (u, v) of the graph the output edge has the source *)
(* str(u), the target str(v), and the id "e" + str(u) + "-" + str(v)      *)
(* unless the attributes of the edge in the graph supply an id, which is  *)
(* then the id.                                                           *)
C24_EdgeIdentity ==
    Imported =>
        \A j \in DOMAIN OutEdges :
            LET e == call.G.edges[j] IN
            /\ OutEdges[j]["source"] = VStr(Str(e.u))
            /\ OutEdges[j]["target"] = VStr(Str(e.v))
            /\ OutEdges[j]["id"] =
                  IF "id" \in DOMAIN e.attrs THEN e.attrs["id"]
                  ELSE VStr((("e" \o Str(e.u)) \o "-") \o Str(e.v))

(* sub occurs in s *)
Contains(s, sub) ==
    \E i \in 1..(Len(s) - Len(sub) + 1) : SubSeq(s, i, i + Len(sub) - 1) = sub

Unsupported(layout) ==
    layout \notin {VNone, VStr("graphviz")} /\ Payload(layout) \notin LayoutFunctions

(* C25: from_networkx with a layout name that is not None, not graphviz   *)
(* and not the name of a layout function raises ValueError with a message *)
(* that has "Unsupported layout" and the name in it, and no node mapping, *)
(* edge mapping or widget has been made.                                  *)
C25_UnsupportedLayout ==
    (call.op = "from_networkx" /\ Unsupported(call.layout)) =>
        /\ call.raised = "ValueError"
        /\ Contains(call.msg, "Unsupported layout")
        /\ Contains(call.msg, Payload(call.layout))
        /\ store = pre.store
        /\ widgets = pre.widgets

(* the layout bogus on a graph with nodes and an edge *)
C25_Witness ==
    /\ call.op = "from_networkx" /\ call.layout = VStr("bogus")
    /\ call.raised = "ValueError"
    /\ Len(call.G.nodes) > 1 /\ Len(call.G.edges) > 0
    /\ widgets = <<>>

(* C26: no two node mappings of the widget from_networkx gives have the   *)
(* same id.                                                               *)
C26_UniqueNodeIds ==
    Imported =>
        \A i, j \in DOMAIN OutNodes : i # j => OutNodes[i]["id"] # OutNodes[j]["id"]

LaidOut == Imported /\ call.layout # VNone

(* C27: the position of every output node is the coordinate the layout    *)
(* function returned for the node multiplied by scale in both axes: with  *)
(* scale S, S times the position with scale 1.                            *)
C27_ScaleLinear ==
    LaidOut =>
        \A i \in DOMAIN OutNodes :
            LET xy == call.layout_result[i][2] IN
            OutNodes[i]["position"] =
                VDict([x |-> VNum(call.scale * (xy[1] * 1)),
                       y |-> VNum(call.scale * (xy[2] * 1))])

----------------------------------------------------------------------------
(* C28: whatever its index and arguments, and whether it returns or       *)
(* raises, an update leaves the nodes and the edges collection of every   *)
(* widget with the number of elements it had, and every element other     *)
(* than the addressed one at the position it had: nothing is appended,    *)
(* removed or reordered.                                                  *)
C28_LengthAndOrder ==
    IsUpdate =>
        /\ \A w \in DOMAIN pre.widgets : \A t \in {"nodes", "edges"} :
              Len(Contents(store, widgets[w][t]))
                  = Len(Contents(pre.store, pre.widgets[w][t]))
        /\ \A j \in 1..Len(After) :
              (j # At /\ j <= Len(Before)) => After[j] = Before[j]

(* the third of three updates replaces at the index one past the end of a *)
(* two-element collection                                                 *)
C28_Witness ==
    /\ nops = MaxOps /\ IsUpdate /\ call.raised = ""
    /\ call.index = Len(Before) /\ GivenReplacementOnly
    /\ Len(Before) = 2 /\ Len(After) = 2

----------------------------------------------------------------------------
(* Sequences of updates on one widget.  The widget is the default one or  *)
(* one built by from_data; each step is one call of update_node or        *)
(* update_edge.  Beside the program's state, call records for every       *)
(* element its original mapping (the one it had at construction or that   *)
(* the last replacement gave it) and the partial updates that succeeded   *)
(* on it since.                                                           *)
MaxUpdates == 3

SeqNodeArgs ==
    { <<VNone, EmptyMap>>, <<VNone, NodeUpdate1>>, <<VNone, NodeUpdate2>>,
      <<NodeA, EmptyMap>>, <<VDict(NodeDictPlain), EmptyMap>> }
SeqEdgeArgs ==
    { <<VNone, EmptyMap>>, <<VNone, EdgeUpdate1>>, <<VNone, EdgeUpdate2>>,
      <<EdgeA, EmptyMap>> }

SeqWidgets ==
    { XYFlowWidget(ModuleStore),
      from_data(ModuleStore, VList(<<NodeA, NodeB>>), VList(<<EdgeA>>), PropsA) }

NoUpdates(st, w) ==
    [t \in {"nodes", "edges"} |-> [j \in DOMAIN st.lists[w[t]] |-> <<>>]]
Originals(st, w) ==
    [t \in {"nodes", "edges"} |-> Contents(st, w[t])]

SeqInit ==
    \E r \in SeqWidgets :
        /\ store = r.st
        /\ widgets = <<r.self>>
        /\ call = [op |-> "", raised |-> "", orig |-> Originals(r.st, r.self),
                   ups |-> NoUpdates(r.st, r.self)]
        /\ pre = [store |-> ModuleStore, widgets |-> <<>>]
        /\ nops = 0

(* one call: r is its result, t the collection it addresses, a its        *)
(* <<replacement, update>>                                                *)
SeqStep(op, t, index, a, r) ==
    LET valid == 0 <= index /\ index < Len(store.lists[widgets[1][t]])
        done == r.raised = "" /\ valid
        now == Contents(r.st, r.self[t])
    IN  /\ nops < MaxUpdates
        /\ nops' = nops + 1
        /\ pre' = [store |-> store, widgets |-> widgets]
        /\ store' = r.st
        /\ widgets' = <<r.self>>
        /\ call' =
              [op |-> op, raised |-> r.raised,
               orig |-> IF done /\ a[1] # VNone
                        THEN [call.orig EXCEPT ![t][index + 1] = now[index + 1]]
                        ELSE call.orig,
               ups |-> IF done /\ a[1] # VNone
                       THEN [call.ups EXCEPT ![t][index + 1] = <<>>]
                       ELSE IF done
                       THEN [call.ups EXCEPT ![t][index + 1] = Append(@, a[2])]
                       ELSE call.ups]

SeqUpdateNode ==
    \E index \in Indexes(widgets[1].nodes) : \E a \in SeqNodeArgs :
        SeqStep("update_node", "nodes", index, a,
                update_node(store, widgets[1], index, a[1], a[2]))

SeqUpdateEdge ==
    \E index \in Indexes(widgets[1].edges) : \E a \in SeqEdgeArgs :
        SeqStep("update_edge", "edges", index, a,
                update_edge(store, widgets[1], index, a[1], a[2]))

SeqNext == SeqUpdateNode \/ SeqUpdateEdge

SeqSpec == SeqInit /\ [][SeqNext]_vars

(* the original mapping merged with the updates in their order *)
RECURSIVE MergedWith(_, _)
MergedWith(m, us) ==
    IF us = <<>> THEN m ELSE MergedWith(Merge(m, Head(us)), Tail(us))

(* the updates of a sequence that set key k *)
Setting(us, k) == {n \in DOMAIN us : k \in DOMAIN us[n]}
Latest(S) == CHOOSE n \in S : \A m \in S : m <= n

Elements(t) == Contents(store, widgets[1][t])

(* C29: each element equals its original mapping merged with the partial  *)
(* updates that succeeded on its index since its last replacement, in     *)
(* their order; a key some of them set holds the value the latest of them *)
(* gave it, a key none of them set holds its original value or is absent  *)
(* as it was.                                                             *)
C29_UpdateSequencing ==
    \A t \in {"nodes", "edges"} : \A j \in DOMAIN Elements(t) :
        LET e == Elements(t)[j]
            o == call.orig[t][j]
            us == call.ups[t][j]
        IN  /\ e = MergedWith(o, us)
            /\ \A k \in DOMAIN e \cup DOMAIN o \cup UNION {DOMAIN us[n] : n \in DOMAIN us} :
                  IF Setting(us, k) # {}
                  THEN k \in DOMAIN e /\ e[k] = us[Latest(Setting(us, k))][k]
                  ELSE IF k \in DOMAIN o
                  THEN k \in DOMAIN e /\ e[k] = o[k]
                  ELSE k \notin DOMAIN e

(* two different updates of the first node, the second overwriting a key  *)
(* of the first, with an update of an edge among the three calls          *)
C29_Witness ==
    /\ nops = MaxUpdates
    /\ call.ups["nodes"][1] = <<NodeUpdate1, NodeUpdate2>>
    /\ Len(call.ups["edges"][1]) = 1
    /\ Elements("nodes")[1]["selected"] = VBool(FALSE)
    /\ "value" \in DOMAIN Payload(Elements("nodes")[1]["data"])

----------------------------------------------------------------------------
(* the descriptor the calls began with: built by the constructor or by    *)
(* from_dict from the mapping drawn                                       *)
FirstDescriptor ==
    IF call.op[1] = "__init__" THEN New(call.cls, call.arg)
    ELSE from_dict(call.cls, call.arg)

RoundTripped(n) ==
    /\ Len(call.op) = n
    /\ call.op[1] \in {"__init__", "from_dict"}
    /\ SubSeq(call.op, 2, n) = SubSeq(<<"to_dict", "from_dict", "to_dict">>, 1, n - 1)

(* C30: for every descriptor d, from_dict of d.to_dict() succeeds, and    *)
(* its to_dict succeeds and returns the mapping d.to_dict() returned.     *)
C30_RoundTrip ==
    /\ RoundTripped(3) => call.raised = ""
    /\ RoundTripped(4) =>
          /\ call.raised = ""
          /\ call.ret = VDict(to_dict(FirstDescriptor))

====
